---- MODULE Spec2Model ----
(***************************************************************************)
(* A model of the libtcod config deserializer (src/src/de): a cursor over  *)
(* the lexer's token stream, driven by serde visitors.  The call stack of  *)
(* the recursive decoder is explicit: a frame is a pending                 *)
(* `T::deserialize(&mut de)` call or a live SeqAccess / MapAccess object.  *)
(* LexerSpec is the lexer (src/src/lexer.rs) over the characters of a text.*)
(***************************************************************************)
EXTENDS Integers, Sequences, FiniteSets, TLC

VARIABLES
    goal,     \* the target type T of Deserializer::from_str::<T>
    source,   \* the token stream the lexer produces for the input text
    lexer,    \* Deserializer.lexer: index of the current token in source
    stack,    \* the call stack, innermost frame last
    ret,      \* the Result the innermost completed call handed to its caller
    calls,    \* the visitor callbacks invoked so far, in order
    step,     \* the handler that ran last, with the cursor and frame it found
    result,   \* what from_str returned
    text,     \* the input text of Token::lexer, one character per element
    lex,      \* the logos Lexer over text, with the depth of ignore_comments
    seen,     \* the tokens the lexer has handed to its caller, in order
    wrote,    \* the tokens the text was written from, when it was
    scan      \* the lexer step that ran last, with the Lexer it found

\* the variables of the lexer over a text
lexvars == <<text, lex, seen, wrote, scan>>

vars == <<goal, source, lexer, stack, ret, calls, step, result, lexvars>>

-----------------------------------------------------------------------------
(* Bounds of the model.                                                    *)

\* chunks (block openers, closers, fields) in a document of records
MaxChunks == 4
\* items (elements, commas, brackets) after the opening bracket of an array
MaxItems == 5
\* tokens in the input of a string decode
MaxStrLen == 3
\* tokens following the first token in the input of a scalar decode
MaxScalarTail == 0

-----------------------------------------------------------------------------
(* Tokens: the kind the lexer classified and the matched slice, a sequence *)
(* of one-character strings.                                               *)

Tk(kind, slice) == [kind |-> kind, slice |-> slice]

Quoted(inner) == Tk("Text", <<"\"">> \o inner \o <<"\"">>)

CharLit(inner) == Tk("Char", <<"'">> \o inner \o <<"'">>)

Ident(name) == Tk("Identifier", name)

IntLit(slice) == Tk("Integer", slice)

HexLit(slice) == Tk("Hex", slice)

BraceOpen == Tk("BraceOpen", <<"{">>)

BraceClose == Tk("BraceClose", <<"}">>)

Assign == Tk("Assign", <<"=">>)

Comma == Tk("Comma", <<",">>)

BracketOpen == Tk("BracketOpen", <<"[">>)

BracketClose == Tk("BracketClose", <<"]">>)

\* the field name the record decoder reserves for the instance name
INSTANCE_NAME == <<"i", "n", "s", "t", "a", "n", "c", "e", "_", "n", "a", "m", "e">>

-----------------------------------------------------------------------------
(* The lexer as the decoder sees it: token, slice(), range(), advance().   *)

\* lexer.token of a cursor at index lx; the end token is sticky
Token(lx) == IF lx > Len(source) THEN "EndOfProgram" ELSE source[lx].kind

\* lexer.slice()
Slice(lx) == IF lx > Len(source) THEN <<>> ELSE source[lx].slice

RECURSIVE Offset(_)
\* byte offset of token i when the tokens are written one space apart
Offset(i) == IF i <= 1 THEN 0 ELSE Offset(i - 1) + Len(source[i - 1].slice) + 1

\* byte length of the text
SourceEnd ==
    IF source = <<>> THEN 0 ELSE Offset(Len(source)) + Len(source[Len(source)].slice)

\* lexer.range()
Range(lx) ==
    IF lx > Len(source)
    THEN <<SourceEnd, SourceEnd>>
    ELSE <<Offset(lx), Offset(lx) + Len(source[lx].slice)>>

\* lexer.advance()
Advance(lx) == IF lx > Len(source) THEN lx ELSE lx + 1

-----------------------------------------------------------------------------
(* Results.                                                                *)

NoRet == [st |-> "none"]

Ok(v) == [st |-> "ok", v |-> v]

Err(kind, info) == [st |-> "err", kind |-> kind, info |-> info]

Panic(msg) == [st |-> "panic", msg |-> msg]

\* the unexpected_token! macro
UnexpectedToken(lx, expected) ==
    Err("UnexpectedToken",
        [value |-> Slice(lx), token_type |-> Token(lx), range |-> Range(lx),
         expected |-> expected])

\* decoded values, all of one shape: a tag, a number, a text, children
Val(t, i, s, xs) == [t |-> t, i |-> i, s |-> s, xs |-> xs]

VBool(b) == Val("bool", IF b THEN 1 ELSE 0, <<>>, <<>>)

VInt(n) == Val("int", n, <<>>, <<>>)

VFloat(s) == Val("float", 0, s, <<>>)

VChar(c) == Val("char", c, <<>>, <<>>)

VBorrowedStr(s) == Val("str", 0, s, <<>>)

VString(s) == Val("string", 0, s, <<>>)

VSeq(xs) == Val("seq", 0, <<>>, xs)

\* one key/value entry of a record; i = 1 marks the synthesized name entry
VEntry(key, synth, v) == Val("entry", IF synth THEN 1 ELSE 0, key, <<v>>)

VRecord(entries) == Val("record", 0, <<>>, entries)

-----------------------------------------------------------------------------
(* Text of literals.                                                       *)

\* a strip that cuts one character too few at the end
StripQuotesOffByOne(s) == SubSeq(Tail(s), 1, Len(s) - 1)

\* &s[1..][..s.len() - 2]
StripQuotes(s) == SubSeq(Tail(s), 1, Len(s) - 2)

DigitChars ==
    <<"0", "1", "2", "3", "4", "5", "6", "7", "8", "9", "a", "b", "c", "d", "e", "f">>

UpperDigitChars == <<"A", "B", "C", "D", "E", "F">>

\* char::to_digit: the value of c in the radix, or -1
ToDigit(c, radix) ==
    LET lo == {i \in 1..16 : DigitChars[i] = c}
        up == {i \in 1..6 : UpperDigitChars[i] = c}
        d == IF lo # {} THEN (CHOOSE i \in lo : TRUE) - 1
             ELSE IF up # {} THEN (CHOOSE i \in up : TRUE) + 9
             ELSE -1
    IN IF d >= 0 /\ d < radix THEN d ELSE -1

RECURSIVE ParseDigits(_, _, _, _)
\* the digit loop of from_str_radix with checked arithmetic: -1 is an Err
ParseDigits(ds, radix, cap, acc) ==
    IF ds = <<>> THEN acc
    ELSE LET d == ToDigit(Head(ds), radix)
         IN IF d < 0 \/ acc * radix + d > cap THEN -1
            ELSE ParseDigits(Tail(ds), radix, cap, acc * radix + d)

Pow2(n) == IF n = 7 THEN 128 ELSE IF n = 8 THEN 256 ELSE IF n = 15 THEN 32768 ELSE 65536

\* str::parse::<iN / uN>, from_str_radix: [ok, v]
FromStrRadix(s, radix, signed, bits) ==
    LET first == IF s = <<>> THEN "" ELSE Head(s)
        neg == signed /\ first = "-"
        ds == IF first = "+" \/ neg THEN Tail(s) ELSE s
        cap == IF neg THEN Pow2(bits - 1)
               ELSE IF signed THEN Pow2(bits - 1) - 1 ELSE Pow2(bits) - 1
        m == IF ds = <<>> THEN -1 ELSE ParseDigits(ds, radix, cap, 0)
    IN IF m < 0 THEN [ok |-> FALSE, v |-> 0]
       ELSE [ok |-> TRUE, v |-> IF neg THEN 0 - m ELSE m]

\* the code point of a character that stands for itself in a char literal
CharCode(c) ==
    CASE c = "c" -> 99
      [] c = "A" -> 65
      [] c = "\\" -> 92
      [] OTHER -> 63

\* the named escapes of deserialize_char: the code point, or -1
SpecialChar(c) ==
    CASE c = "n" -> 10
      [] c = "t" -> 9
      [] c = "r" -> 13
      [] c = "\\" -> 92
      [] c = "\"" -> 34
      [] c = "'" -> 39
      [] OTHER -> -1

-----------------------------------------------------------------------------
(* The target types: what the derived Deserialize impls of the caller ask  *)
(* the deserializer for.  A record type gives its type tag and its fields; *)
(* every field but the name field is #[serde(default)].                    *)

Field(name, ty) == [name |-> name, ty |-> ty]

IntType(signed, bits) == [kind |-> "int", signed |-> signed, bits |-> bits]

SeqType(elem) == [kind |-> "seq", elem |-> elem]

StructType(name, fields) == [kind |-> "struct", name |-> name, fields |-> fields]

TypeOf(ty) ==
    CASE ty = "bool" -> [kind |-> "bool"]
      [] ty = "i8" -> IntType(TRUE, 8)
      [] ty = "i16" -> IntType(TRUE, 16)
      [] ty = "u8" -> IntType(FALSE, 8)
      [] ty = "u16" -> IntType(FALSE, 16)
      [] ty = "f32" -> [kind |-> "float"]
      [] ty = "char" -> [kind |-> "char"]
      [] ty = "str" -> [kind |-> "str"]
      [] ty = "string" -> [kind |-> "string"]
      [] ty = "ignored" -> [kind |-> "ignored"]
      [] ty = "vec_u8" -> SeqType("u8")
      [] ty = "vec_char" -> SeqType("char")
      [] ty = "vec_string" -> SeqType("string")
      [] ty = "vec_f32" -> SeqType("f32")
      [] ty = "vec_vec_u8" -> SeqType("vec_u8")
      [] ty = "vec_a" -> SeqType("a")
      [] ty = "vec_noname" -> SeqType("noname")
      [] ty = "a" ->
            StructType(<<"a">>,
                <<Field(INSTANCE_NAME, "string"), Field(<<"w">>, "u8"),
                  Field(<<"f", "l", "a", "g">>, "bool"), Field(<<"a">>, "vec_a"),
                  Field(<<"b">>, "b")>>)
      [] ty = "b" -> StructType(<<"b">>, <<Field(INSTANCE_NAME, "str")>>)
      [] ty = "noname" -> StructType(<<"a">>, <<Field(<<"w">>, "u8")>>)
      [] ty = "c" ->
            StructType(<<"a">>,
                <<Field(INSTANCE_NAME, "string"), Field(<<"w">>, "noname"),
                  Field(<<"f", "l", "a", "g">>, "noname"),
                  Field(<<"a">>, "vec_noname"), Field(<<"b">>, "noname")>>)

ScalarGoals == {"bool", "i8", "i16", "u8", "u16", "f32", "char", "noname"}

StrGoals == {"str", "string"}

ArrayGoals == {"vec_u8", "vec_char", "vec_string", "vec_f32", "vec_vec_u8"}

RecordGoals == {"a", "vec_a", "c"}

Goals == ScalarGoals \cup StrGoals \cup ArrayGoals \cup RecordGoals

-----------------------------------------------------------------------------
(* The inputs: token streams, built from short phrases.                    *)

SeqsUpTo(S, n) == UNION {[1..k -> S] : k \in 0..n}

RECURSIVE Concat(_)
Concat(ss) == IF ss = <<>> THEN <<>> ELSE Head(ss) \o Concat(Tail(ss))

ScalarTokens ==
    {IntLit(<<"3">>), IntLit(<<"-", "1">>), IntLit(<<"1", "2", "7">>),
     IntLit(<<"1", "2", "8">>), IntLit(<<"-", "1", "2", "8">>),
     IntLit(<<"-", "1", "2", "9">>), IntLit(<<"2", "5", "5">>),
     IntLit(<<"3", "0", "0">>), IntLit(<<"6", "5", "5", "3", "6">>),
     HexLit(<<"0", "x", "1", "F">>), HexLit(<<"-", "0", "x", "1", "F">>),
     HexLit(<<"0", "X", "4", "1">>), HexLit(<<"0", "x", "1", "0", "0">>),
     Tk("Float", <<"3", ".", "5">>), Tk("Float", <<".", "5">>),
     CharLit(<<"c">>), CharLit(<<"\\", "n">>), CharLit(<<"\\", "x", "4", "1">>),
     CharLit(<<"\\", "1", "0", "1">>), CharLit(<<"\\", "7", "7", "7">>),
     CharLit(<<"\\">>),
     Quoted(<<"a", "b">>), Ident(<<"a">>),
     Tk("Color", <<"#", "0", "0", "0", "0", "0", "0">>),
     BraceOpen, BracketOpen, Comma,
     Tk("Unexpected", <<"?">>), Tk("UnclosedMultilineComment", <<"/", "*">>)}

ScalarDocs ==
    {<<>>} \cup
    {<<t>> \o tail : t \in ScalarTokens,
                     tail \in SeqsUpTo({Comma, IntLit(<<"3">>)}, MaxScalarTail)}

StrDocs ==
    SeqsUpTo({Quoted(<<"a", "b">>), Quoted(<<"c", "d">>), Quoted(<<>>),
              Ident(<<"a">>)}, MaxStrLen)

ArrayItems(g) ==
    {<<Comma>>, <<BracketClose>>} \cup
    CASE g = "vec_u8" -> {<<IntLit(<<"1">>)>>, <<IntLit(<<"2">>)>>}
      [] g = "vec_char" -> {<<CharLit(<<"c">>)>>, <<HexLit(<<"0", "x", "4", "1">>)>>}
      [] g = "vec_string" -> {<<Quoted(<<"x">>)>>, <<Quoted(<<"y">>)>>}
      [] g = "vec_f32" -> {<<Tk("Float", <<"1", ".", "5">>)>>, <<IntLit(<<"1">>)>>}
      [] g = "vec_vec_u8" ->
            {<<BracketOpen, IntLit(<<"1">>), BracketClose>>,
             <<BracketOpen, BracketClose>>}

ArrayDocs(g) ==
    {<<BracketOpen>> \o Concat(items) : items \in SeqsUpTo(ArrayItems(g), MaxItems)}

Chunks ==
    {<<Ident(<<"a">>), BraceOpen, BraceClose>>,
     <<Ident(<<"a">>), BraceOpen>>,
     <<Ident(<<"a">>), Quoted(<<"n">>), BraceOpen>>,
     <<Ident(<<"b">>), BraceOpen>>,
     <<BraceClose>>,
     <<Ident(<<"w">>), Assign, IntLit(<<"3">>)>>,
     <<Ident(<<"f", "l", "a", "g">>)>>,
     <<IntLit(<<"3">>)>>}

\* documents outside the phrase grid: an unnamed block with a field, a type
\* tag in another case, a field spelled like the reserved name
ExtraDocs ==
    {<<Ident(<<"a">>), BraceOpen, Ident(<<"w">>), Assign, IntLit(<<"3">>), BraceClose>>,
     <<Ident(<<"A">>), BraceOpen, BraceClose>>,
     <<Ident(<<"a">>), Quoted(<<"n">>), BraceOpen, Ident(INSTANCE_NAME), Assign,
       Quoted(<<"m">>), BraceClose>>}

\* what may stand after the `=` of a field: one token of every kind and the
\* end of the text
AfterAssign ==
    {<<Quoted(<<"n">>)>>, <<CharLit(<<"c">>)>>, <<IntLit(<<"3">>)>>,
     <<HexLit(<<"0", "x", "1", "F">>)>>, <<Tk("Float", <<"3", ".", "5">>)>>,
     <<BracketOpen, BracketClose>>, <<Ident(<<"w">>)>>, <<BraceOpen>>, <<Assign>>,
     <<Comma>>, <<BracketClose>>, <<Tk("Color", <<"#", "0", "0", "0", "0", "0", "0">>)>>,
     <<Tk("Unexpected", <<"?">>)>>, <<>>}

\* a block whose field w, flag, a or b is assigned each of them
AssignDocs ==
    {<<Ident(<<"a">>), BraceOpen, f, Assign>> \o v \o e :
        f \in {Ident(<<"w">>), Ident(<<"f", "l", "a", "g">>), Ident(<<"a">>),
               Ident(<<"b">>)},
        v \in AfterAssign, e \in {<<BraceClose>>, <<>>}}

RecordDocs ==
    {Concat(cs) : cs \in SeqsUpTo(Chunks, MaxChunks)} \cup ExtraDocs \cup AssignDocs

Docs(g) ==
    IF g \in ScalarGoals THEN ScalarDocs
    ELSE IF g \in StrGoals THEN StrDocs
    ELSE IF g \in ArrayGoals THEN ArrayDocs(g)
    ELSE RecordDocs

-----------------------------------------------------------------------------
(* The call stack.                                                         *)

\* the logos Lexer: the current token and its byte range in the text, the
\* `level` of ignore_comments while it runs, and what the lexer does next
LexerAt(token, token_start, token_end, level, pc) ==
    [token |-> token, token_start |-> token_start, token_end |-> token_end,
     level |-> level, pc |-> pc]

\* a text that was not written from a list of tokens
NotWritten == [tokens |-> <<>>, written |-> FALSE]

\* a pending `T::deserialize(&mut de)`
DeFrame(ty) == [f |-> "deserialize", ty |-> ty]

Top == stack[Len(stack)]

Pop == SubSeq(stack, 1, Len(stack) - 1)

\* the innermost frame is a pending deserialize of a type of this kind
Pending(kind) ==
    /\ stack # <<>>
    /\ ret.st = "none"
    /\ Top.f = "deserialize"
    /\ TypeOf(Top.ty).kind = kind

\* the call returns r with the cursor at lx after the callbacks cbs
Return(r, lx, cbs) ==
    /\ ret' = r
    /\ lexer' = lx
    /\ stack' = Pop
    /\ calls' = calls \o cbs

Ran(op) ==
    /\ step' = [op |-> op, lexer |-> lexer, top |-> Top]
    /\ UNCHANGED <<goal, source, result, lexvars>>

\* Deserializer::new and the call of T::deserialize
Init ==
    \E g \in Goals :
        \E d \in Docs(g) :
            /\ goal = g
            /\ source = d
            /\ lexer = 1
            /\ stack = <<DeFrame(g)>>
            /\ ret = NoRet
            /\ calls = <<>>
            /\ step = [op |-> "new", lexer |-> 1, top |-> DeFrame(g)]
            /\ result = NoRet
            /\ text = <<>>
            /\ lex = LexerAt("EndOfProgram", 0, 0, 0, "end")
            /\ seen = <<>>
            /\ wrote = NotWritten
            /\ scan = [op |-> "new", lex |-> lex, seen |-> seen]

-----------------------------------------------------------------------------
(* Scalars.                                                                *)

deserialize_bool ==
    /\ Pending("bool")
    /\ IF Token(lexer) = "Identifier"
       THEN Return(Ok(VBool(TRUE)), Advance(lexer), <<"visit_bool">>)
       ELSE Return(UnexpectedToken(lexer, "<identifier>"), lexer, <<>>)
    /\ Ran("deserialize_bool")

\* visit_number!(lexer, Integer, iN / uN): parse().unwrap() panics on an Err
deserialize_int ==
    /\ Pending("int")
    /\ LET T == TypeOf(Top.ty)
           parsed == FromStrRadix(Slice(lexer), 10, T.signed, T.bits)
       IN IF Token(lexer) = "Integer"
          THEN IF parsed.ok
               THEN Return(Ok(VInt(parsed.v)), Advance(lexer), <<"visit_int">>)
               ELSE Return(Panic("called Result::unwrap() on an Err value"),
                           lexer, <<>>)
          ELSE Return(UnexpectedToken(lexer, "<number>"), lexer, <<>>)
    /\ Ran("deserialize_int")

\* visit_number!(lexer, Float, f32 / f64): the value is kept as its literal
deserialize_float ==
    /\ Pending("float")
    /\ IF Token(lexer) = "Float"
       THEN Return(Ok(VFloat(Slice(lexer))), Advance(lexer), <<"visit_float">>)
       ELSE Return(UnexpectedToken(lexer, "<number>"), lexer, <<>>)
    /\ Ran("deserialize_float")

InvalidChar(cause) == Err("InvalidChar", [source |-> cause])

\* the match on the inside of a Char token: [ok, v] or an error result
CharOfLiteral(c) ==
    LET octal == Len(c) > 1 /\ \A i \in 2..Len(c) : ToDigit(c[i], 8) >= 0
        hex == FromStrRadix(SubSeq(c, 3, Len(c)), 16, FALSE, 8)
        oct == FromStrRadix(Tail(c), 8, FALSE, 8)
    IN IF Len(c) >= 2 /\ c[1] = "\\" /\ c[2] = "x"
       THEN IF hex.ok THEN Ok(VChar(hex.v)) ELSE InvalidChar("ParseInt")
       ELSE IF octal
       THEN IF oct.ok THEN Ok(VChar(oct.v)) ELSE InvalidChar("ParseInt")
       ELSE IF Len(c) = 2 /\ c[1] = "\\"
       THEN IF SpecialChar(c[2]) >= 0 THEN Ok(VChar(SpecialChar(c[2])))
            ELSE InvalidChar("InvalidEscapeSequence")
       ELSE IF Len(c) = 1 THEN Ok(VChar(CharCode(c[1])))
       ELSE Panic("called Result::unwrap() on an Err value")

deserialize_char ==
    /\ Pending("char")
    /\ LET dec == FromStrRadix(Slice(lexer), 10, FALSE, 8)
           hex == FromStrRadix(SubSeq(Slice(lexer), 3, Len(Slice(lexer))), 16, FALSE, 8)
           lit == CharOfLiteral(StripQuotes(Slice(lexer)))
       IN CASE Token(lexer) = "Integer" ->
                IF dec.ok
                THEN Return(Ok(VChar(dec.v)), Advance(lexer), <<"visit_char">>)
                ELSE Return(InvalidChar("ParseInt"), lexer, <<>>)
            [] Token(lexer) = "Hex" ->
                IF hex.ok
                THEN Return(Ok(VChar(hex.v)), Advance(lexer), <<"visit_char">>)
                ELSE Return(InvalidChar("ParseInt"), lexer, <<>>)
            [] Token(lexer) = "Char" ->
                IF lit.st = "ok"
                THEN Return(lit, Advance(lexer), <<"visit_char">>)
                ELSE Return(lit, lexer, <<>>)
            [] OTHER -> Return(UnexpectedToken(lexer, "\"<char>\""), lexer, <<>>)
    /\ Ran("deserialize_char")

MultiLineStringOnBorrowedStr(lx) ==
    Err("MultiLineStringOnBorrowedStr", [value |-> Slice(lx), range |-> Range(lx)])

deserialize_str ==
    /\ Pending("str")
    /\ IF Token(lexer) = "Text"
       THEN IF Token(Advance(lexer)) = "Text"
            THEN Return(MultiLineStringOnBorrowedStr(Advance(lexer)), Advance(lexer), <<>>)
            ELSE Return(Ok(VBorrowedStr(StripQuotes(Slice(lexer)))), Advance(lexer),
                        <<"visit_borrowed_str">>)
       ELSE Return(UnexpectedToken(lexer, "\"<string>\""), lexer, <<>>)
    /\ Ran("deserialize_str")

RECURSIVE PushTexts(_, _)
\* the while loop of deserialize_string: the text gathered and the cursor after it
PushTexts(lx, acc) ==
    IF Token(lx) = "Text"
    THEN PushTexts(Advance(lx), acc \o StripQuotes(Slice(lx)))
    ELSE [result |-> acc, lexer |-> lx]

deserialize_string ==
    /\ Pending("string")
    /\ IF Token(lexer) # "Text"
       THEN Return(UnexpectedToken(lexer, "\"<string>\""), lexer, <<>>)
       ELSE LET run == PushTexts(lexer, <<>>)
            IN Return(Ok(VString(run.result)), run.lexer, <<"visit_string">>)
    /\ Ran("deserialize_string")

\* unimplemented!("Ignoring items currently not supported.")
deserialize_ignored_any ==
    /\ Pending("ignored")
    /\ Return(Panic("not implemented"), lexer, <<>>)
    /\ Ran("deserialize_ignored_any")

-----------------------------------------------------------------------------
(* Sequences.                                                              *)

\* deserialize_seq between visit_seq(PrimitiveSeqAccess) and its `]` check
SeqCloseFrame == [f |-> "deserialize_seq"]

\* PrimitiveSeqAccess::new plus the Vec the visitor fills
PrimitiveSeqFrame(elem) ==
    [f |-> "PrimitiveSeqAccess", elem |-> elem, pc |-> "next", elems |-> <<>>]

\* StructSeqAccess::new plus the Vec the visitor fills; at: where it began
StructSeqFrame(elem, at) ==
    [f |-> "StructSeqAccess", elem |-> elem, type_name |-> <<>>, pc |-> "next",
     elems |-> <<>>, at |-> at]

\* the innermost frame is the access object f, about to run the part pc
At(f, pc) ==
    /\ stack # <<>>
    /\ Top.f = f
    /\ Top.pc = pc

\* the handler goes on in the frames fs, with the cursor at lx
Enter(fs, lx, cbs) ==
    /\ stack' = Pop \o fs
    /\ lexer' = lx
    /\ ret' = NoRet
    /\ calls' = calls \o cbs

deserialize_seq ==
    /\ Pending("seq")
    /\ LET elem == TypeOf(Top.ty).elem
       IN CASE Token(lexer) = "Identifier" ->
                Enter(<<StructSeqFrame(elem, lexer)>>, lexer, <<"visit_seq">>)
            [] Token(lexer) = "BracketOpen" ->
                Enter(<<SeqCloseFrame, PrimitiveSeqFrame(elem)>>, Advance(lexer),
                      <<"visit_seq">>)
            [] OTHER -> Return(UnexpectedToken(lexer, "[ or identifier"), lexer, <<>>)
    /\ Ran("deserialize_seq")

\* deserialize_seq once visit_seq returned: the closing bracket
deserialize_seq_close ==
    /\ stack # <<>>
    /\ Top.f = "deserialize_seq"
    /\ ret.st = "ok"
    /\ IF Token(lexer) # "BracketClose"
       THEN Return(UnexpectedToken(lexer, "]"), lexer, <<>>)
       ELSE Return(ret, Advance(lexer), <<>>)
    /\ Ran("deserialize_seq_close")

\* the token kinds PrimitiveSeqAccess takes for the start of an element
StartsElement(token) == token \in {"Text", "Integer", "Float", "Char", "BracketOpen"}

\* next_element_seed up to seed.deserialize; on `]` the visitor gets None
\* and returns its Vec
PrimitiveSeqAccess_next_element_seed ==
    /\ At("PrimitiveSeqAccess", "next")
    /\ ret.st = "none"
    /\ CASE StartsElement(Token(lexer)) ->
                Enter(<<[Top EXCEPT !.pc = "element"], DeFrame(Top.elem)>>, lexer, <<>>)
         [] Token(lexer) = "BracketClose" ->
                Return(Ok(VSeq(Top.elems)), lexer, <<>>)
         [] OTHER -> Return(UnexpectedToken(lexer, "<value> or ]"), lexer, <<>>)
    /\ Ran("PrimitiveSeqAccess_next_element_seed")

\* the comma left where it is
SeparatorKept(token, lx) == lx

\* `else if self.de.lexer.token == Token::Comma { self.de.lexer.advance(); }`
AfterSeparator(token, lx) == IF token = "Comma" THEN Advance(lx) ELSE lx

\* next_element_seed after seed.deserialize returned Ok: the separator
PrimitiveSeqAccess_element ==
    /\ At("PrimitiveSeqAccess", "element")
    /\ ret.st = "ok"
    /\ IF Token(lexer) # "Comma" /\ Token(lexer) # "BracketClose"
       THEN Return(UnexpectedToken(lexer, "<value> or ]"), lexer, <<>>)
       ELSE Enter(<<[Top EXCEPT !.pc = "next", !.elems = Append(@, ret.v)]>>,
                  AfterSeparator(Token(lexer), lexer), <<>>)
    /\ Ran("PrimitiveSeqAccess_element")

\* the comparison with its sense inverted
SameAsTypeName(type_name, slice) == type_name = slice

\* type_name != self.de.lexer.slice()
DiffersFromTypeName(type_name, slice) == type_name # slice

\* next_element_seed up to seed.deserialize; on None the visitor returns its
\* Vec, which is what deserialize_seq returns
StructSeqAccess_next_element_seed ==
    /\ At("StructSeqAccess", "next")
    /\ ret.st = "none"
    /\ CASE Token(lexer) = "Identifier" ->
                IF Top.type_name # <<>> /\ DiffersFromTypeName(Top.type_name[1], Slice(lexer))
                THEN Return(Ok(VSeq(Top.elems)), lexer, <<>>)
                ELSE Enter(<<[Top EXCEPT !.pc = "element",
                                         !.type_name = IF @ = <<>> THEN <<Slice(lexer)>> ELSE @],
                             DeFrame(Top.elem)>>, lexer, <<>>)
         [] Token(lexer) = "BraceClose" -> Return(Ok(VSeq(Top.elems)), lexer, <<>>)
         [] OTHER -> Return(UnexpectedToken(lexer, "<type> <typename> or }"), lexer, <<>>)
    /\ Ran("StructSeqAccess_next_element_seed")

\* .map(Some): the visitor pushes the element and asks for the next
StructSeqAccess_element ==
    /\ At("StructSeqAccess", "element")
    /\ ret.st = "ok"
    /\ Enter(<<[Top EXCEPT !.pc = "next", !.elems = Append(@, ret.v)]>>, lexer, <<>>)
    /\ Ran("StructSeqAccess_element")

-----------------------------------------------------------------------------
(* Records.                                                                *)

\* a check that any field at all is declared
HasAnyField(fields) == fields # <<>>

\* fields.contains(&"instance_name")
HasInstanceName(fields) == \E i \in 1..Len(fields) : fields[i].name = INSTANCE_NAME

\* an ASCII letter in lower case
ToAsciiLowercase(c) ==
    IF \E i \in 1..6 : UpperDigitChars[i] = c
    THEN DigitChars[10 + CHOOSE i \in 1..6 : UpperDigitChars[i] = c]
    ELSE c

\* a comparison that ignores the case of the letters
DiffersIgnoringCase(lex_type_name, type_name) ==
    [j \in 1..Len(lex_type_name) |-> ToAsciiLowercase(lex_type_name[j])]
    # [j \in 1..Len(type_name) |-> ToAsciiLowercase(type_name[j])]

\* lex_type_name != type_name
DiffersFromStruct(lex_type_name, type_name) == lex_type_name # type_name

\* the Text after the type identifier as it is written
LexNameWithQuotes(lx) == Slice(lx)

\* lex_name: the Text after the type identifier without its quotes
LexName(lx) == StripQuotes(Slice(lx))

\* StructInternalAccess::new plus the entries the visitor has stored;
\* at: the cursor of the type identifier
StructInternalFrame(ty, instance_name, at) ==
    [f |-> "StructInternalAccess", ty |-> ty, instance_name |-> <<instance_name>>,
     lexer |-> <<>>, pc |-> "key", key |-> <<>>, vty |-> "", entries |-> <<>>,
     at |-> at]

deserialize_struct ==
    /\ Pending("struct")
    /\ LET T == TypeOf(Top.ty)
           l1 == Advance(lexer)
           named == Token(l1) = "Text"
           l2 == IF named THEN Advance(l1) ELSE l1
           lex_name == IF named THEN LexName(l1) ELSE <<>>
       IN IF ~HasInstanceName(T.fields)
          THEN Return(Err("MissingInstanceName", [none |-> 0]), lexer, <<>>)
          ELSE IF Token(lexer) # "Identifier"
          THEN Return(UnexpectedToken(lexer, "<typename>"), lexer, <<>>)
          ELSE IF DiffersFromStruct(Slice(lexer), T.name)
          THEN Return(Err("UnexpectedStruct",
                          [name |-> Slice(lexer), expected |-> T.name]), lexer, <<>>)
          ELSE IF Token(l1) \notin {"Text", "BraceOpen"}
          THEN Return(UnexpectedToken(l1, "\"<instance_name>\" or {"), l1, <<>>)
          ELSE IF Token(l2) # "BraceOpen"
          THEN Return(UnexpectedToken(l2, "{"), l2, <<>>)
          ELSE Enter(<<StructInternalFrame(Top.ty, lex_name, lexer)>>, Advance(l2),
                     <<"visit_map">>)
    /\ Ran("deserialize_struct")

\* the tokens after a candidate field name that make it a field
FollowsField(token) ==
    token \in {"Assign", "Text", "BraceOpen", "Identifier", "BraceClose"}

\* the derived field visitor: the declared type of the key, "ignored" for a
\* key the type does not declare
FieldType(fields, key) ==
    IF \E i \in 1..Len(fields) : fields[i].name = key
    THEN fields[CHOOSE i \in 1..Len(fields) : fields[i].name = key].ty
    ELSE "ignored"

Stored(entries, key) == \E i \in 1..Len(entries) : entries[i].s = key

\* the derived visit_map gets the key: a field seen before is a duplicate
TakeKey(key, snapshot, lx) ==
    IF Stored(Top.entries, key)
    THEN Return(Err("Serde", [msg |-> "duplicate field"]), lx, <<>>)
    ELSE Enter(<<[Top EXCEPT !.pc = "value", !.key = key, !.lexer = snapshot,
                             !.vty = FieldType(TypeOf(Top.ty).fields, key)]>>,
               lx, <<>>)

\* de.lexer after next_key_seed turned a candidate field name down
RejectedCursor(snapshot, advanced) == advanced

\* next_key_seed; on None the derived visit_map returns the record
StructInternalAccess_next_key_seed ==
    /\ At("StructInternalAccess", "key")
    /\ ret.st = "none"
    /\ IF Top.instance_name # <<>>
       THEN TakeKey(INSTANCE_NAME, Top.lexer, lexer)
       ELSE IF Token(lexer) = "BraceClose"
       THEN Return(Ok(VRecord(Top.entries)), Advance(lexer), <<>>)
       ELSE IF Token(lexer) # "Identifier"
       THEN Return(UnexpectedToken(lexer, "<field>"), lexer, <<>>)
       ELSE IF FollowsField(Token(Advance(lexer)))
       THEN TakeKey(Slice(lexer), <<lexer>>, Advance(lexer))
       ELSE Return(Ok(VRecord(Top.entries)), RejectedCursor(lexer, Advance(lexer)), <<>>)
    /\ Ran("StructInternalAccess_next_key_seed")

\* the tokens next_value_seed takes for the start of a value after `=`
StartsValue(token) ==
    token \in {"Text", "Char", "Integer", "Hex", "Float", "BracketOpen"}

\* the restore left out: the value decode starts behind the field name
KeptCursor(snapshot, current) == current

\* `self.de.lexer = self.lexer.take().unwrap()`: back on the field name
RestoredCursor(snapshot, current) == snapshot

\* BorrowedStrDeserializer::new(instance_name) handed to the field's seed
NameValue(ty, instance_name) ==
    CASE TypeOf(ty).kind = "string" -> Ok(VString(instance_name))
      [] TypeOf(ty).kind = "str" -> Ok(VBorrowedStr(instance_name))
      [] OTHER -> Err("Serde", [msg |-> "invalid type: string"])

\* next_value_seed up to seed.deserialize
StructInternalAccess_next_value_seed ==
    /\ At("StructInternalAccess", "value")
    /\ ret.st = "none"
    /\ LET value == NameValue(Top.vty, Top.instance_name[1])
           next == [Top EXCEPT !.pc = "entry", !.lexer = <<>>]
       IN IF Top.instance_name # <<>>
          THEN IF value.st = "ok"
               THEN Enter(<<[Top EXCEPT !.instance_name = <<>>, !.pc = "key",
                                        !.entries = Append(@, VEntry(Top.key, TRUE, value.v))]>>,
                          lexer, <<"visit_borrowed_str">>)
               ELSE Return(value, lexer, <<>>)
          ELSE CASE Token(lexer) = "Assign" ->
                    IF StartsValue(Token(Advance(lexer)))
                    THEN Enter(<<next, DeFrame(Top.vty)>>, Advance(lexer), <<>>)
                    ELSE Return(UnexpectedToken(Advance(lexer), "<value>"),
                                Advance(lexer), <<>>)
                 [] Token(lexer) \in {"Text", "BraceOpen", "Identifier", "BraceClose"} ->
                    IF Top.lexer = <<>>
                    THEN Return(Panic("called Option::unwrap() on a None value"),
                                lexer, <<>>)
                    ELSE Enter(<<next, DeFrame(Top.vty)>>,
                               RestoredCursor(Top.lexer[1], lexer), <<>>)
                 [] OTHER ->
                    Return(UnexpectedToken(lexer, "= or \"<name>\""), lexer, <<>>)
    /\ Ran("StructInternalAccess_next_value_seed")

\* the derived visit_map stores the value and asks for the next key
StructInternalAccess_entry ==
    /\ At("StructInternalAccess", "entry")
    /\ ret.st = "ok"
    /\ Enter(<<[Top EXCEPT !.pc = "key",
                           !.entries = Append(@, VEntry(Top.key, FALSE, ret.v))]>>,
             lexer, <<>>)
    /\ Ran("StructInternalAccess_entry")

-----------------------------------------------------------------------------
(* Errors leave through every caller (`?`, `return result`), a panic       *)
(* unwinds; from_str hands the outcome to its caller.                      *)

propagate ==
    /\ stack # <<>>
    /\ ret.st \in {"err", "panic"}
    /\ stack' = <<>>
    /\ UNCHANGED <<lexer, ret, calls>>
    /\ Ran("propagate")

from_str ==
    /\ stack = <<>>
    /\ ret.st # "none"
    /\ result.st = "none"
    /\ result' = ret
    /\ step' = [op |-> "from_str", lexer |-> lexer, top |-> step.top]
    /\ UNCHANGED <<goal, source, lexer, stack, ret, calls, lexvars>>

Next ==
    \/ deserialize_bool
    \/ deserialize_int
    \/ deserialize_float
    \/ deserialize_char
    \/ deserialize_str
    \/ deserialize_string
    \/ deserialize_ignored_any
    \/ deserialize_seq
    \/ deserialize_seq_close
    \/ PrimitiveSeqAccess_next_element_seed
    \/ PrimitiveSeqAccess_element
    \/ StructSeqAccess_next_element_seed
    \/ StructSeqAccess_element
    \/ deserialize_struct
    \/ StructInternalAccess_next_key_seed
    \/ StructInternalAccess_next_value_seed
    \/ StructInternalAccess_entry
    \/ propagate
    \/ from_str

Spec == Init /\ [][Next]_vars

-----------------------------------------------------------------------------
(* The lexer (src/src/lexer.rs): the derived logos Lexer over the text and *)
(* the comment callback.  Offsets are byte offsets from 0, as token_start  *)
(* and token_end are; the loop of ignore_comments takes one step per turn. *)

\* nesting of the deepest block comment written into a text
MaxNesting == 2
\* tokens a text is written from
MaxWritten == 2
\* characters after the opening `/*` of a text that starts in a comment
MaxBody == 6

\* lex.read_at(n) with n counted from offset 0: the byte there, "" for None
Read(i) == IF i < Len(text) THEN text[i + 1] ELSE ""

\* lex.slice() of the range from..to
SliceOf(from, to) == SubSeq(text, from + 1, to)

\* the offset behind the longest run of characters of S from offset i
RECURSIVE Run(_, _)
Run(i, S) == IF Read(i) \in S THEN Run(i + 1, S) ELSE i

\* the offset of the first character of S at or after i, or of the end
RECURSIVE Until(_, _)
Until(i, S) == IF i >= Len(text) \/ Read(i) \in S THEN i ELSE Until(i + 1, S)

\* the bytes the derived lexer skips between tokens
Whitespace == {" ", "\t", "\n", "\r"}

Digits == {"0", "1", "2", "3", "4", "5", "6", "7", "8", "9"}

OctalDigits == {"0", "1", "2", "3", "4", "5", "6", "7"}

HexDigits == Digits \cup {"a", "b", "c", "d", "e", "f", "A", "B", "C", "D", "E", "F"}

Letters ==
    {"a", "b", "c", "d", "e", "f", "g", "h", "i", "j", "k", "l", "m", "n", "o", "p",
     "q", "r", "s", "t", "u", "v", "w", "x", "y", "z", "A", "B", "C", "D", "E", "F",
     "G", "H", "I", "J", "K", "L", "M", "N", "O", "P", "Q", "R", "S", "T", "U", "V",
     "W", "X", "Y", "Z"}

\* the larger of two offsets
Longer(a, b) == IF a >= b THEN a ELSE b

\* Each pattern gives the offset behind its longest match at offset i, or -1.

\* "[^"]*"
TextEnd(i) ==
    LET close == Until(i + 1, {"\""})
    IN IF Read(i) = "\"" /\ Read(close) = "\"" THEN close + 1 ELSE -1

\* '(\\x[0-9a-fA-F]+|\\[0-7]+|\\(n|t|r|\\|"|')|.)'
CharEnd(i) ==
    LET hex == Run(i + 3, HexDigits)
        oct == Run(i + 2, OctalDigits)
        escaped == Read(i) = "'" /\ Read(i + 1) = "\\"
    IN Longer(
         Longer(IF escaped /\ Read(i + 2) = "x" /\ hex > i + 3 /\ Read(hex) = "'"
                THEN hex + 1 ELSE -1,
                IF escaped /\ oct > i + 2 /\ Read(oct) = "'" THEN oct + 1 ELSE -1),
         Longer(IF escaped /\ Read(i + 2) \in {"n", "t", "r", "\\", "\"", "'"}
                           /\ Read(i + 3) = "'"
                THEN i + 4 ELSE -1,
                IF Read(i) = "'" /\ Read(i + 1) \notin {"", "\n"} /\ Read(i + 2) = "'"
                THEN i + 3 ELSE -1))

\* (-|\+)?([0-9]*\.[0-9]+|[0-9]+\.[0-9]*)((E|e)(-|\+)?[0-9]+)?
FloatEnd(i) ==
    LET first == IF Read(i) \in {"-", "+"} THEN i + 1 ELSE i
        dot == Run(first, Digits)
        mantissa == Run(dot + 1, Digits)
        digits == IF Read(mantissa + 1) \in {"-", "+"} THEN mantissa + 2 ELSE mantissa + 1
        exponent == Run(digits, Digits)
    IN IF Read(dot) = "." /\ (dot > first \/ mantissa > dot + 1)
       THEN IF Read(mantissa) \in {"E", "e"} /\ exponent > digits
            THEN exponent ELSE mantissa
       ELSE -1

\* -?0(x|X)[0-9a-fA-F]+
HexEnd(i) ==
    LET first == IF Read(i) = "-" THEN i + 1 ELSE i
        end == Run(first + 2, HexDigits)
    IN IF Read(first) = "0" /\ Read(first + 1) \in {"x", "X"} /\ end > first + 2
       THEN end ELSE -1

\* -?[0-9]+
IntegerEnd(i) ==
    LET first == IF Read(i) = "-" THEN i + 1 ELSE i
        end == Run(first, Digits)
    IN IF end > first THEN end ELSE -1

\* [a-zA-Z][a-zA-Z0-9_]*
IdentifierEnd(i) ==
    IF Read(i) \in Letters THEN Run(i + 1, Letters \cup Digits \cup {"_"}) ELSE -1

\* # and six hexadecimal digits
ColorEnd(i) ==
    IF Read(i) = "#" /\ Run(i + 1, HexDigits) >= i + 7 THEN i + 7 ELSE -1

\* a #[token] of one character
TokenEnd(i, c) == IF Read(i) = c THEN i + 1 ELSE -1

\* //[^\n]*
LineCommentEnd(i) ==
    IF Read(i) = "/" /\ Read(i + 1) = "/" THEN Until(i + 2, {"\n"}) ELSE -1

\* the #[token = "/*"]
BlockCommentOpen(i) == IF Read(i) = "/" /\ Read(i + 1) = "*" THEN i + 2 ELSE -1

\* a pattern of the enum at offset i: its variant, where its match ends and
\* whether the variant's callback runs on it
Pattern(token, end, callback) == [token |-> token, end |-> end, callback |-> callback]

\* the patterns in the order of the enum
Patterns(i) ==
    <<Pattern("Text", TextEnd(i), FALSE),
      Pattern("Char", CharEnd(i), FALSE),
      Pattern("Float", FloatEnd(i), FALSE),
      Pattern("Hex", HexEnd(i), FALSE),
      Pattern("Integer", IntegerEnd(i), FALSE),
      Pattern("Identifier", IdentifierEnd(i), FALSE),
      Pattern("Color", ColorEnd(i), FALSE),
      Pattern("BraceOpen", TokenEnd(i, "{"), FALSE),
      Pattern("BraceClose", TokenEnd(i, "}"), FALSE),
      Pattern("Assign", TokenEnd(i, "="), FALSE),
      Pattern("Comma", TokenEnd(i, ","), FALSE),
      Pattern("BracketOpen", TokenEnd(i, "["), FALSE),
      Pattern("BracketClose", TokenEnd(i, "]"), FALSE),
      Pattern("Unexpected", LineCommentEnd(i), TRUE),
      Pattern("Unexpected", BlockCommentOpen(i), TRUE)>>

\* the derived lexer at offset i: the longest match, the #[error] variant
\* over one byte when no pattern matches
Matched(i) ==
    LET ps == Patterns(i)
        hits == {k \in 1..Len(ps) : ps[k].end > i}
        best == CHOOSE k \in hits :
                    \A j \in hits : ps[k].end > ps[j].end \/ (ps[k].end = ps[j].end /\ k <= j)
    IN IF hits = {} THEN Pattern("Unexpected", i + 1, FALSE) ELSE ps[best]

\* the test on every matched comment taken for true
AnyComment(slice) == Head(slice) = "/"

\* `lex.slice().as_bytes() == b"/*"`
IsBlockOpen(slice) == slice = <<"/", "*">>

\* the nesting not counted
SameLevel(level) == level

\* `level += 1`
Deeper(level) == level + 1

\* the caller is handed the current token
Hand(token, from, to) == seen' = Append(seen, Tk(token, SliceOf(from, to)))

\* a lexer step ran
Scanned(op) ==
    /\ scan' = [op |-> op, lex |-> lex, seen |-> seen]
    /\ UNCHANGED <<text, wrote>>
    /\ UNCHANGED <<goal, source, lexer, stack, ret, calls, step, result>>

\* Lexer::advance: the first one of Token::lexer, one by the caller after
\* a token, one at the end of ignore_comments.  On a comment the callback
\* starts: a block comment enters its loop, a line comment advances again.
advance ==
    /\ lex.pc = "advance"
    /\ LET i == Run(lex.token_end, Whitespace)
           m == Matched(i)
       IN IF i >= Len(text)
          THEN /\ lex' = LexerAt("EndOfProgram", i, i, 0, "end")
               /\ Hand("EndOfProgram", i, i)
          ELSE IF m.callback
          THEN /\ lex' = IF IsBlockOpen(SliceOf(i, m.end))
                         THEN LexerAt(m.token, i, m.end, 1, "comment")
                         ELSE LexerAt(m.token, i, m.end, 0, "advance")
               /\ seen' = seen
          ELSE /\ lex' = LexerAt(m.token, i, m.end, 0, "advance")
               /\ Hand(m.token, i, m.end)
    /\ Scanned("advance")

\* one turn of the loop of ignore_comments
ignore_comments ==
    /\ lex.pc = "comment"
    /\ LET at == lex.token_end
           bump(n, level) == [lex EXCEPT !.token_end = at + n, !.level = level]
       IN CASE Read(at) = "" ->
                 /\ lex' = [lex EXCEPT !.token = "UnclosedMultilineComment",
                                       !.level = 0, !.pc = "advance"]
                 /\ Hand("UnclosedMultilineComment", lex.token_start, at)
            [] Read(at) = "*" /\ Read(at + 1) = "/" ->
                 /\ lex' = IF lex.level - 1 = 0
                           THEN [bump(2, 0) EXCEPT !.pc = "advance"]
                           ELSE bump(2, lex.level - 1)
                 /\ seen' = seen
            [] Read(at) = "/" /\ Read(at + 1) = "*" ->
                 /\ lex' = bump(2, Deeper(lex.level))
                 /\ seen' = seen
            [] OTHER ->
                 /\ lex' = bump(1, lex.level)
                 /\ seen' = seen
    /\ Scanned("ignore_comments")

\* The texts.

\* the tokens a text is written from, one of every kind that has a slice of
\* its own shape
Lexemes ==
    {Quoted(<<"/", "*">>), CharLit(<<"/">>), Tk("Float", <<".", "5">>),
     HexLit(<<"0", "x", "1", "F">>), IntLit(<<"-", "1">>), Ident(<<"a">>),
     Tk("Color", <<"#", "0", "0", "0", "0", "0", "0">>), BraceOpen, Assign, Comma}

\* x inside d block comments
RECURSIVE Nested(_)
Nested(d) == IF d = 0 THEN <<"x">> ELSE <<"/", "*">> \o Nested(d - 1) \o <<"*", "/">>

\* line comments with their newline
LineComments ==
    {<<"/", "/", "\n">>, <<"/", "/", "x", "\n">>, <<"/", "/", "/", "*", "\n">>,
     <<"/", "/", "\"", "\r", "\n">>}

\* balanced block comments: nested, side by side in another, empty, holding
\* the start of a line comment, a quote, a star and a slash apart
BlockComments ==
    {Nested(d) : d \in 1..MaxNesting} \cup
    {<<"/", "*">> \o Nested(1) \o <<" ">> \o Nested(1) \o <<"*", "/">>,
     <<"/", "*", "*", "/">>,
     <<"/", "*", "/", "/", "\n", "*", "/">>,
     <<"/", "*", "\"", "*", "/">>,
     <<"/", "*", "*", " ", "/", " ", "*", "/">>}

\* what a gap between two tokens holds: a space, a comment in place of it
Gaps == {<<" ">>} \cup LineComments \cup BlockComments

\* the tokens ts with a space between them and gap in place of the g-th
\* space; g = 0 is in front of the first token, g = Len(ts) behind the last
RECURSIVE WrittenFrom(_, _, _, _)
WrittenFrom(ts, k, g, gap) ==
    IF k > Len(ts) THEN <<>>
    ELSE ts[k].slice \o (IF k = g THEN gap ELSE IF k < Len(ts) THEN <<" ">> ELSE <<>>)
         \o WrittenFrom(ts, k + 1, g, gap)

\* a text that starts inside a block comment
Bodies == {<<"/", "*">> \o b : b \in SeqsUpTo({"/", "*", "x"}, MaxBody)}

\* Token::lexer(text) up to its first advance
LexerInit ==
    /\ \/ \E ts \in SeqsUpTo(Lexemes, MaxWritten) :
            \E g \in 0..Len(ts) :
                \E gap \in Gaps :
                    /\ text = (IF g = 0 THEN gap ELSE <<>>) \o WrittenFrom(ts, 1, g, gap)
                    /\ wrote = [tokens |-> ts, written |-> TRUE]
       \/ \E b \in Bodies :
            /\ text = b
            /\ wrote = NotWritten
    /\ lex = LexerAt("Unexpected", 0, 0, 0, "advance")
    /\ seen = <<>>
    /\ scan = [op |-> "new", lex |-> lex, seen |-> seen]
    /\ goal = "bool"
    /\ source = <<>>
    /\ lexer = 1
    /\ stack = <<>>
    /\ ret = NoRet
    /\ calls = <<>>
    /\ step = [op |-> "new", lexer |-> 1, top |-> DeFrame("bool")]
    /\ result = NoRet

LexerNext ==
    \/ advance
    \/ ignore_comments

LexerSpec == LexerInit /\ [][LexerNext]_vars

-----------------------------------------------------------------------------
(* What the source text says, read off the tokens without the decoder.     *)

\* a quoted slice without its first and last character
Inner(s) == [j \in 1..(Len(s) - 2) |-> s[j + 1]]

\* the instance name written after the type identifier at index at
WrittenName(at) ==
    IF at + 1 <= Len(source) /\ source[at + 1].kind = "Text"
    THEN Inner(source[at + 1].slice)
    ELSE <<>>

\* the index of the first token inside the braces of the block at index at
BodyStart(at) ==
    IF at + 1 <= Len(source) /\ source[at + 1].kind = "Text" THEN at + 3 ELSE at + 2

\* braces opened and not closed in source[from .. p - 1]
Depth(from, p) ==
    Cardinality({q \in from..(p - 1) : source[q].kind = "BraceOpen"})
    - Cardinality({q \in from..(p - 1) : source[q].kind = "BraceClose"})

\* the blocks named name that lie side by side in source[from .. to - 1]
Siblings(from, to, name) ==
    {p \in from..(to - 1) : source[p] = Ident(name) /\ Depth(from, p) = 0}

\* the number of Text tokens in a row from index p on
TextRun(p) ==
    CHOOSE m \in 0..(Len(source) + 1) :
        /\ \A j \in 0..(m - 1) : Token(p + j) = "Text"
        /\ Token(p + m) # "Text"

RECURSIVE Joined(_, _)
\* the insides of the m Text tokens from index p on, one after the other
Joined(p, m) ==
    IF m = 0 THEN <<>> ELSE Joined(p, m - 1) \o Inner(source[p + m - 1].slice)

IntGoals == {"i8", "i16", "u8", "u16"}

\* the least and the greatest value of an integer type
Least(g) ==
    CASE g = "i8" -> -128 [] g = "i16" -> -32768 [] OTHER -> 0

Greatest(g) ==
    CASE g = "i8" -> 127 [] g = "i16" -> 32767 [] g = "u8" -> 255 [] OTHER -> 65535

RECURSIVE Magnitude(_, _)
\* the number the digits ds write in the radix
Magnitude(ds, radix) ==
    IF ds = <<>> THEN 0
    ELSE Magnitude(SubSeq(ds, 1, Len(ds) - 1), radix) * radix + ToDigit(ds[Len(ds)], radix)

\* the number an Integer slice writes
Written(s) ==
    IF Head(s) = "-" THEN 0 - Magnitude(Tail(s), 10) ELSE Magnitude(s, 10)

-----------------------------------------------------------------------------
(* Claims.                                                                 *)

\* C1: in every record decode the reserved name field is the first entry
\* the visitor receives, it is delivered once, before the cursor has moved
\* past the opening brace, and its value is the instance name written after
\* the type identifier without its quotes, or the empty text when none is
\* written.
C1_NameFieldFirst ==
    \A k \in 1..Len(stack) :
        stack[k].f = "StructInternalAccess" =>
            LET F == stack[k]
            IN /\ F.instance_name # <<>> =>
                    /\ F.entries = <<>>
                    /\ k = Len(stack)
                    /\ lexer = BodyStart(F.at)
               /\ F.instance_name = <<>> =>
                    /\ F.entries # <<>>
                    /\ F.entries[1].i = 1
                    /\ F.entries[1].s = INSTANCE_NAME
                    /\ F.entries[1].xs[1].s = WrittenName(F.at)
                    /\ \A j \in 2..Len(F.entries) : F.entries[j].i = 0

\* a named block whose name entry was followed by a field from the tokens
C1_Witness ==
    \E k \in 1..Len(stack) :
        /\ stack[k].f = "StructInternalAccess"
        /\ Len(stack[k].entries) >= 2
        /\ stack[k].entries[1].xs[1].s = <<"n">>
        /\ stack[k].entries[2].s = <<"w">>

\* C2: a record decode that finds an identifier other than its type tag
\* returns UnexpectedStruct with the found and the expected name and leaves
\* the cursor on the identifier; the error is what from_str returns.
C2_MismatchIsUnexpectedStruct ==
    /\ ( /\ step.op = "deserialize_struct"
         /\ \E i \in 1..Len(TypeOf(step.top.ty).fields) :
                TypeOf(step.top.ty).fields[i].name = INSTANCE_NAME
         /\ Token(step.lexer) = "Identifier"
         /\ Slice(step.lexer) # TypeOf(step.top.ty).name )
       => /\ ret = Err("UnexpectedStruct",
                       [name |-> Slice(step.lexer),
                        expected |-> TypeOf(step.top.ty).name])
          /\ lexer = step.lexer
    /\ (ret.st = "err" /\ ret.kind = "UnexpectedStruct" /\ result.st # "none")
       => /\ result = ret
          /\ Token(lexer) = "Identifier"
          /\ Slice(lexer) = ret.info.name

\* the first element of a grouped sibling sequence carries another name
C2_Witness ==
    /\ step.op = "deserialize_struct"
    /\ ret.st = "err"
    /\ ret.kind = "UnexpectedStruct"
    /\ stack # <<>>
    /\ Top.f = "StructSeqAccess"
    /\ Top.elems = <<>>
    /\ Top.type_name = <<ret.info.name>>

\* C3: a record decode for a type that declares no name field returns
\* MissingInstanceName wherever the cursor is and leaves it where it was.
C3_MissingNameFieldFirst ==
    ( /\ step.op = "deserialize_struct"
      /\ \A i \in 1..Len(TypeOf(step.top.ty).fields) :
             TypeOf(step.top.ty).fields[i].name # INSTANCE_NAME )
    => /\ ret.st = "err"
       /\ ret.kind = "MissingInstanceName"
       /\ lexer = step.lexer
       /\ Token(lexer) = Token(step.lexer)
       /\ Slice(lexer) = Slice(step.lexer)
       /\ Range(lexer) = Range(step.lexer)

\* the decode was asked for inside a block, with the cursor on a value
C3_Witness ==
    /\ step.op = "deserialize_struct"
    /\ ret.st = "err"
    /\ ret.kind = "MissingInstanceName"
    /\ lexer > 1
    /\ Token(lexer) = "Integer"

\* C4: a grouped sibling sequence commits the identifier of its first
\* element; once committed, an identifier with another name or a closing
\* brace ends it with as many elements as blocks of the committed name lie
\* side by side before that token, and the cursor stays on that token.
C4_SiblingBoundary ==
    /\ ( /\ step.op = "StructSeqAccess_next_element_seed"
         /\ step.top.type_name = <<>>
         /\ Token(step.lexer) = "Identifier"
         /\ ret.st = "none" )
       => /\ stack[Len(stack) - 1].f = "StructSeqAccess"
          /\ stack[Len(stack) - 1].type_name = <<Slice(step.lexer)>>
    /\ ( /\ step.op = "StructSeqAccess_next_element_seed"
         /\ step.top.type_name # <<>>
         /\ \/ Token(step.lexer) = "BraceClose"
            \/ /\ Token(step.lexer) = "Identifier"
               /\ Slice(step.lexer) # step.top.type_name[1] )
       => /\ ret.st = "ok"
          /\ Len(ret.v.xs) >= 1
          /\ Len(ret.v.xs) =
                Cardinality(Siblings(step.top.at, step.lexer, step.top.type_name[1]))
          /\ lexer = step.lexer
    /\ ( /\ goal = "vec_a"
         /\ source = <<Ident(<<"a">>), BraceOpen, BraceClose,
                       Ident(<<"b">>), BraceOpen, BraceClose,
                       Ident(<<"a">>), BraceOpen, BraceClose>>
         /\ result.st # "none" )
       => /\ result.st = "ok"
          /\ Len(result.v.xs) = 1
          /\ lexer = 4

\* two blocks, then another name, then a block of the committed name again
C4_Witness ==
    /\ step.op = "StructSeqAccess_next_element_seed"
    /\ ret.st = "ok"
    /\ Len(ret.v.xs) = 2
    /\ Token(lexer) = "Identifier"
    /\ Slice(lexer) = <<"b">>
    /\ \E p \in (lexer + 1)..Len(source) : source[p] = Ident(<<"a">>)

\* C5: when the token after a candidate field name is none of Assign, Text,
\* BraceOpen, Identifier, BraceClose, the field scan ends the record and the
\* cursor is back on the candidate identifier.
C5_RejectedCandidateRewinds ==
    ( /\ step.op = "StructInternalAccess_next_key_seed"
      /\ step.top.instance_name = <<>>
      /\ Token(step.lexer) = "Identifier"
      /\ Token(step.lexer + 1) \notin
            {"Assign", "Text", "BraceOpen", "Identifier", "BraceClose"} )
    => /\ ret.st = "ok"
       /\ lexer = step.lexer

\* the plainest well-formed blocks of type a
PlainBlocks ==
    {<<Ident(<<"a">>), BraceOpen, BraceClose>>,
     <<Ident(<<"a">>), Quoted(<<"n">>), BraceOpen, BraceClose>>,
     <<Ident(<<"a">>), BraceOpen, Ident(<<"w">>), Assign, IntLit(<<"3">>), BraceClose>>}

RECURSIVE PlainBlocksFrom(_)
\* the number of plain blocks source consists of from index p on, or -1
PlainBlocksFrom(p) ==
    IF p > Len(source) THEN 0
    ELSE LET fits == {b \in PlainBlocks :
                        /\ p + Len(b) - 1 <= Len(source)
                        /\ SubSeq(source, p, p + Len(b) - 1) = b}
         IN IF fits = {} THEN -1
            ELSE LET rest == PlainBlocksFrom(p + Len(CHOOSE b \in fits : TRUE))
                 IN IF rest < 0 THEN -1 ELSE rest + 1

\* C6: a document of k >= 1 well-formed blocks of type a and nothing else
\* decodes, as a sequence of a, to k elements.
C6_TopLevelSequence ==
    (goal = "vec_a" /\ PlainBlocksFrom(1) >= 1 /\ result.st # "none")
    => /\ result.st = "ok"
       /\ Len(result.v.xs) = PlainBlocksFrom(1)

\* the token kinds that write an element of the array type g
ElementKinds(g) ==
    CASE g = "vec_u8" -> {"Integer"}
      [] g = "vec_char" -> {"Char", "Hex"}
      [] g = "vec_string" -> {"Text"}
      [] g = "vec_f32" -> {"Float"}
      [] OTHER -> {}

\* source starts with `[ e , ... , e ]` of n one-token elements
WritesArray(g, n) ==
    /\ Len(source) >= 2 * n + 1 + (IF n = 0 THEN 1 ELSE 0)
    /\ source[1].kind = "BracketOpen"
    /\ \A j \in 1..n : source[2 * j].kind \in ElementKinds(g)
    /\ \A j \in 1..(n - 1) : source[2 * j + 1].kind = "Comma"
    /\ source[IF n = 0 THEN 2 ELSE 2 * n + 1].kind = "BracketClose"

\* C7: a bracketed array of n >= 0 elements, each written with a scalar
\* token of the element type, decodes to n elements and leaves the cursor
\* right after the closing bracket.
C7_ArrayDecode ==
    \A n \in 0..MaxItems :
        (goal \in ArrayGoals /\ WritesArray(goal, n) /\ result.st # "none")
        => /\ result.st = "ok"
           /\ Len(result.v.xs) = n
           /\ lexer = (IF n = 0 THEN 3 ELSE 2 * n + 2)

\* C8: over a run of m >= 1 Text tokens the owning string decode returns
\* the quote-stripped contents joined and stops on the first token that is
\* not a Text; the borrowed decode returns the one content when m = 1 and
\* MultiLineStringOnBorrowedStr when m >= 2.
C8_StringRuns ==
    /\ (step.op = "deserialize_string" /\ Token(step.lexer) = "Text")
       => /\ ret = Ok(VString(Joined(step.lexer, TextRun(step.lexer))))
          /\ lexer = step.lexer + TextRun(step.lexer)
          /\ Token(lexer) # "Text"
    /\ (step.op = "deserialize_str" /\ Token(step.lexer) = "Text")
       => IF TextRun(step.lexer) = 1
          THEN /\ ret = Ok(VBorrowedStr(Inner(source[step.lexer].slice)))
               /\ lexer = step.lexer + 1
          ELSE /\ ret.st = "err"
               /\ ret.kind = "MultiLineStringOnBorrowedStr"

\* "ab" "cd" decoded as an owning string
C8_Witness ==
    /\ step.op = "deserialize_string"
    /\ TextRun(step.lexer) = 2
    /\ ret.st = "ok"
    /\ ret.v.s = <<"a", "b", "c", "d">>

\* C9: a negative hex literal decodes, as a signed integer it fits, to the
\* negated value of its hex digits.
C9_NegativeHex ==
    ( /\ goal \in {"i8", "i16"}
      /\ source # <<>>
      /\ source[1].kind = "Hex"
      /\ Head(source[1].slice) = "-"
      /\ result.st # "none" )
    => /\ result.st = "ok"
       /\ result.v.i = 0 - Magnitude(SubSeq(source[1].slice, 4, Len(source[1].slice)), 16)

\* C10: an Integer literal outside the range of the requested integer type
\* ends the decode with an error result and no visitor callback.
C10_OutOfRangeIsError ==
    ( /\ goal \in IntGoals
      /\ source # <<>>
      /\ source[1].kind = "Integer"
      /\ \/ Written(source[1].slice) < Least(goal)
         \/ Written(source[1].slice) > Greatest(goal)
      /\ result.st # "none" )
    => /\ result.st = "err"
       /\ calls = <<>>

-----------------------------------------------------------------------------
(* Value resolution after an accepted field name.                          *)

\* the frames of the call stack that hold a parked cursor
Parked == {k \in 1..Len(stack) : stack[k].f = "StructInternalAccess" /\ stack[k].lexer # <<>>}

\* the value decode of the field has started: the field's type is pending on
\* top of its record, which holds no parked cursor any more
ValueDecodeStarted(vty) ==
    /\ ret = NoRet
    /\ Len(stack) >= 2
    /\ Top = DeFrame(vty)
    /\ stack[Len(stack) - 1].f = "StructInternalAccess"
    /\ stack[Len(stack) - 1].pc = "entry"
    /\ stack[Len(stack) - 1].lexer = <<>>
    /\ Parked = {}

\* C13: after an accepted field name, `=` is consumed and must be followed by
\* Text, Char, Integer, Hex, Float or BracketOpen, else the decode fails with
\* UnexpectedToken expecting a value; on Text, BraceOpen, Identifier or
\* BraceClose the cursor goes back to the parked field name, which is then the
\* current token of the value decode; once the value decode has started no
\* parked cursor remains, and at no time is more than one parked, which the
\* record then awaiting its value holds
C13_ValueResolution ==
    /\ Cardinality(Parked) <= 1
    /\ \A k \in Parked : k = Len(stack) /\ stack[k].pc = "value"
    /\ (step.op = "StructInternalAccess_next_value_seed" /\ step.top.instance_name = <<>>) =>
          LET at == step.lexer
              after == IF at > Len(source) THEN at ELSE at + 1
          IN /\ Token(at) = "Assign" =>
                  IF Token(after) \in {"Text", "Char", "Integer", "Hex", "Float", "BracketOpen"}
                  THEN ValueDecodeStarted(step.top.vty) /\ lexer = after
                  ELSE /\ ret.st = "err"
                       /\ ret.kind = "UnexpectedToken"
                       /\ ret.info.expected = "<value>"
                       /\ ret.info.token_type = Token(after)
                       /\ Parked = {}
             /\ Token(at) \in {"Text", "BraceOpen", "Identifier", "BraceClose"} =>
                  /\ ValueDecodeStarted(step.top.vty)
                  /\ lexer = at - 1
                  /\ Token(lexer) = "Identifier"
                  /\ Slice(lexer) = step.top.key

\* in a block that also assigns a field with `=`, a field name followed by
\* the closing brace has been taken back as the start of its own value
C13_Witness ==
    /\ step.op = "StructInternalAccess_next_value_seed"
    /\ step.top.instance_name = <<>>
    /\ Token(step.lexer) = "BraceClose"
    /\ ValueDecodeStarted(step.top.vty)
    /\ lexer = step.lexer - 1
    /\ \E i \in 1..Len(source) : source[i].kind = "Assign"

-----------------------------------------------------------------------------
(* Commas of an array.                                                     *)

\* the arrays whose elements are written with one token
FlatGoals == {"vec_u8", "vec_char", "vec_string", "vec_f32"}

\* the token kinds the array decode takes as an element of the goal
TakenKinds(g) == ElementKinds(g) \ {"Hex"}

\* the kind of the i-th token of the text, EndOfProgram behind the last
KindAt(i) == IF i <= Len(source) THEN source[i].kind ELSE "EndOfProgram"

\* the text starts with `[` and n one-token elements, a comma after each
CommaRun(g, n) ==
    /\ Len(source) >= 2 * n + 1
    /\ source[1].kind = "BracketOpen"
    /\ \A j \in 1..n : source[2 * j].kind \in TakenKinds(g) /\ source[2 * j + 1].kind = "Comma"

\* the value a one-token element writes
ElementWritten(tok) ==
    CASE tok.kind = "Integer" -> VInt(Written(tok.slice))
      [] tok.kind = "Text" -> VString(Inner(tok.slice))
      [] tok.kind = "Float" -> VFloat(tok.slice)
      [] tok.kind = "Char" -> VChar(CharCode(tok.slice[2]))

\* the decode gave the first n elements of the text and stopped behind the
\* token at position close
DecodedElements(n, close) ==
    /\ result = Ok(VSeq([j \in 1..n |-> ElementWritten(source[2 * j])]))
    /\ lexer = close + 1

\* the decode failed on the token at position i
FailedOn(i) ==
    /\ result.st = "err"
    /\ result.kind = "UnexpectedToken"
    /\ result.info.token_type = KindAt(i)
    /\ lexer = i

\* C14: `[e1, ..., en,]` with one trailing comma decodes to the same n
\* elements as `[e1, ..., en]`; a comma where an element has to start, right
\* after `[` or after another comma, is a fatal UnexpectedToken, and so is
\* an element followed by anything but a comma or the closing bracket; in
\* every array decode a comma after an element is consumed and the closing
\* bracket returns the elements gathered so far
C14_ArrayCommas ==
    /\ (goal \in FlatGoals /\ result.st # "none") =>
          \A n \in 0..MaxItems :
              CommaRun(goal, n) =>
                  LET i == 2 * n + 2
                  IN /\ KindAt(i) = "BracketClose" => DecodedElements(n, i)
                     /\ (KindAt(i) \in TakenKinds(goal) /\ KindAt(i + 1) = "BracketClose")
                            => DecodedElements(n + 1, i + 1)
                     /\ KindAt(i) = "Comma" => FailedOn(i)
                     /\ (/\ KindAt(i) \in TakenKinds(goal)
                         /\ KindAt(i + 1) \notin {"Comma", "BracketClose"}
                         /\ ~(KindAt(i) = "Text" /\ KindAt(i + 1) = "Text"))
                            => FailedOn(i + 1)
    /\ (step.op = "PrimitiveSeqAccess_element" /\ Token(step.lexer) = "Comma") =>
          /\ lexer = step.lexer + 1
          /\ Top.f = "PrimitiveSeqAccess"
          /\ Len(Top.elems) = Len(step.top.elems) + 1
    /\ (step.op = "PrimitiveSeqAccess_element" /\ Token(step.lexer) \notin {"Comma", "BracketClose"}) =>
          /\ ret.st = "err"
          /\ ret.kind = "UnexpectedToken"
          /\ ret.info.token_type = Token(step.lexer)
    /\ (step.op = "PrimitiveSeqAccess_next_element_seed" /\ Token(step.lexer) = "Comma") =>
          /\ ret.st = "err"
          /\ ret.kind = "UnexpectedToken"
          /\ ret.info.token_type = "Comma"
    /\ (step.op = "PrimitiveSeqAccess_next_element_seed" /\ Token(step.lexer) = "BracketClose") =>
          ret = Ok(VSeq(step.top.elems))

\* `[e1, e2,]` has been decoded to its two elements
C14_Witness ==
    /\ goal \in FlatGoals
    /\ CommaRun(goal, 2)
    /\ KindAt(6) = "BracketClose"
    /\ DecodedElements(2, 6)

-----------------------------------------------------------------------------
(* The block-comment skipper.                                              *)

\* the two characters of the text at offset i
Pair(i) == IF i + 2 <= Len(text) THEN <<text[i + 1], text[i + 2]>> ELSE <<>>

\* the depth left open at the end of the text when a comment is d deep at
\* offset i; 0 when the comment closes before the end
RECURSIVE LeftOpen(_, _)
LeftOpen(i, d) ==
    IF d = 0 THEN 0
    ELSE IF i >= Len(text) THEN d
    ELSE IF Pair(i) = <<"/", "*">> THEN LeftOpen(i + 2, d + 1)
    ELSE IF Pair(i) = <<"*", "/">> THEN LeftOpen(i + 2, d - 1)
    ELSE LeftOpen(i + 1, d)

\* C12: the skipper starts at depth 1 behind `/*`; a turn over `/*` raises
\* the depth by one, a turn over `*/` lowers it by one, any other turn
\* leaves it; the skipper stops only on the `*/` that brings the depth to 0
\* and the depth is at least 1 while it scans; at the end of the text with
\* the comment still open the current token is UnclosedMultilineComment,
\* which the caller is handed, not EndOfProgram or another token
C12_BlockCommentSkipper ==
    /\ lex.pc = "comment" => lex.level >= 1
    /\ (scan.op = "advance" /\ lex.pc = "comment") =>
          /\ lex.level = 1
          /\ lex.token_end = lex.token_start + 2
          /\ Pair(lex.token_start) = <<"/", "*">>
    /\ scan.op = "ignore_comments" =>
          LET at == scan.lex.token_end
              depth == scan.lex.level
          IN /\ scan.lex.pc = "comment"
             /\ IF at >= Len(text)
                THEN /\ lex.token = "UnclosedMultilineComment"
                     /\ lex.pc = "advance"
                     /\ seen[Len(seen)].kind = "UnclosedMultilineComment"
                ELSE IF Pair(at) = <<"/", "*">>
                THEN lex.pc = "comment" /\ lex.level = depth + 1 /\ lex.token_end = at + 2
                ELSE IF Pair(at) = <<"*", "/">>
                THEN /\ lex.token_end = at + 2
                     /\ IF depth = 1
                        THEN lex.pc = "advance" /\ seen = scan.seen
                        ELSE lex.pc = "comment" /\ lex.level = depth - 1
                ELSE lex.pc = "comment" /\ lex.level = depth /\ lex.token_end = at + 1
    /\ (text \in Bodies /\ seen # <<>>) =>
          (seen[1] = Tk("UnclosedMultilineComment", text) <=> LeftOpen(2, 1) >= 1)

\* a comment two deep ran into the end of the text
C12_Witness ==
    /\ scan.op = "ignore_comments"
    /\ scan.lex.level = 2
    /\ scan.lex.token_end = Len(text)
    /\ lex.token = "UnclosedMultilineComment"

-----------------------------------------------------------------------------
(* Comments between tokens.                                                *)

\* the stream of a text written from tokens and read to its end
StreamOf(ts) == ts \o <<Tk("EndOfProgram", <<>>)>>

\* the text holds the characters cs in a row
Holds(cs) == \E i \in 0..(Len(text) - Len(cs)) : SubSeq(text, i + 1, i + Len(cs)) = cs

\* C11: a text written from a list of tokens gives the caller these tokens,
\* kinds and slices, and then EndOfProgram, whether the gap in front of,
\* between or behind the tokens holds a space, a line comment with its
\* newline or a balanced, possibly nested block comment: the comment changes
\* nothing in the stream the decoder reads
C11_CommentTransparency ==
    wrote.written =>
        /\ Len(seen) <= Len(wrote.tokens) + 1
        /\ \A k \in 1..Len(seen) : seen[k] = StreamOf(wrote.tokens)[k]
        /\ lex.pc = "end" => seen = StreamOf(wrote.tokens)

\* two tokens with a block comment two deep between them were read to the
\* end of the text
C11_Witness ==
    /\ wrote.written
    /\ Len(wrote.tokens) = MaxWritten
    /\ Holds(wrote.tokens[1].slice \o Nested(2) \o wrote.tokens[2].slice)
    /\ lex.pc = "end"
    /\ seen = StreamOf(wrote.tokens)

====
